---------------------------- MODULE Spec2Model ----------------------------
(***************************************************************************)
(* Model of int_titan::integer (src/integer.h): a sign-magnitude           *)
(* arbitrary-length integer over little-endian base-2^32 digits, with      *)
(* add / subtract / negate / is_less_than and the power-of-two text codec. *)
(*                                                                         *)
(* A digit is a uint32_t.  TLC's integers are 32-bit signed, so a digit is *)
(* kept as its two 16-bit halves [hi, lo]; every digit operation below is  *)
(* the C++ uint32_t operation, computed modulo 2^32 on the two halves.     *)
(*                                                                         *)
(* assert() is modelled as compiled in (the CMake project sets no build    *)
(* type, hence no NDEBUG): a failing assertion ends the call without a     *)
(* result, and the outcome records which assertion failed.                 *)
(***************************************************************************)
EXTENDS Integers, Sequences, FiniteSets, TLC

VARIABLES pc, call, stack, ret, result

vars == <<pc, call, stack, ret, result>>

\* Longest digit sequence of an operand.
MaxLen == 3
\* Longest text handed to the parser.
MaxTextLen == 3

-----------------------------------------------------------------------------
\* digit = uint32_t, as two 16-bit halves

\* 2^16: the weight of the high half of a digit.
Half == 65536

Digit(h, l) == [hi |-> h, lo |-> l]

Zero == Digit(0, 0)
One == Digit(0, 1)
HighBit == Digit(32768, 0)
\* std::numeric_limits<uint32_t>::max()
max_digit == Digit(Half - 1, Half - 1)

\* uint32_t a + b + c, wrapping (c is the int carry 0 or 1).
DigitAdd(a, b, c) ==
    LET l == a.lo + b.lo + c
        h == a.hi + b.hi + (l \div Half)
    IN  Digit(h % Half, l % Half)

\* uint32_t a - b, wrapping.
DigitSub(a, b) ==
    LET l == a.lo - b.lo
        h == a.hi - b.hi - (IF l < 0 THEN 1 ELSE 0)
    IN  Digit((h + Half) % Half, (l + Half) % Half)

\* uint32_t a < b
DigitLess(a, b) == a.hi < b.hi \/ (a.hi = b.hi /\ a.lo < b.lo)

\* the int carry / borrow converted to uint32_t
FromInt(c) == Digit(0, c)

\* (d >> bit) & 1, for bit in 0..31
DigitBit(d, bit) ==
    IF bit < 16 THEN (d.lo \div (2 ^ bit)) % 2
                ELSE (d.hi \div (2 ^ (bit - 16))) % 2

\* d | (b << bit), for b in {0, 1} and bit in 0..31
DigitOrBit(d, b, bit) ==
    IF b = 0 \/ DigitBit(d, bit) = 1 THEN d
    ELSE IF bit < 16 THEN Digit(d.hi, d.lo + 2 ^ bit)
                     ELSE Digit(d.hi + 2 ^ (bit - 16), d.lo)

-----------------------------------------------------------------------------
\* integer: (digits, is_negative)

create(digits, is_negative) == [digits |-> digits, is_negative |-> is_negative]

negate(x) == [x EXCEPT !.is_negative = ~x.is_negative]

\* index is 0-based, as in the source.
get_digit(x, index) ==
    IF index < Len(x.digits) THEN x.digits[index + 1] ELSE Zero

\* static_cast<superdigit>(max_digit) + 1 - digit, truncated to a digit.
inverse_digit(d) == DigitSub(Zero, d)

Max(a, b) == IF a > b THEN a ELSE b

RECURSIVE StripZeros(_)
\* while (!result.empty() and result[result.size() - 1] == 0) result.take(size - 1)
StripZeros(s) ==
    IF s # <<>> /\ s[Len(s)] = Zero THEN StripZeros(SubSeq(s, 1, Len(s) - 1)) ELSE s

RECURSIVE is_less_than_from(_, _, _)
is_less_than_from(x, y, i) ==
    IF i < 0 THEN FALSE
    ELSE IF get_digit(x, i) # get_digit(y, i)
         THEN DigitLess(get_digit(x, i), get_digit(y, i))
         ELSE is_less_than_from(x, y, i - 1)

\* is_less_than with equal magnitudes taken as less (the final return flipped).
is_less_than_or_equal(x, y) ==
    IF Len(x.digits) # Len(y.digits) THEN Len(x.digits) < Len(y.digits)
    ELSE x.digits = y.digits \/ is_less_than_from(x, y, Len(x.digits) - 1)

is_less_than(x, y) ==
    IF Len(x.digits) # Len(y.digits) THEN Len(x.digits) < Len(y.digits)
    ELSE is_less_than_from(x, y, Len(x.digits) - 1)

RECURSIVE add_loop(_, _, _, _, _)
\* The carry loop of add; carry as left by the previous iteration.
add_loop(x, y, i, carry, res) ==
    IF i < Max(Len(x.digits), Len(y.digits))
    THEN LET sum == DigitAdd(get_digit(x, i), get_digit(y, i), carry)
         IN  add_loop(x, y, i + 1,
                      IF DigitLess(sum, get_digit(x, i)) THEN 1 ELSE 0,
                      Append(res, sum))
    ELSE IF carry = 1 THEN Append(res, One) ELSE res

RECURSIVE subtract_loop(_, _, _, _, _)
\* The borrow loop of subtract.
subtract_loop(x, y, i, borrow, res) ==
    IF i < Max(Len(x.digits), Len(y.digits))
    THEN LET xb == DigitSub(get_digit(x, i), FromInt(borrow))
         IN  IF ~DigitLess(xb, get_digit(y, i))
             THEN subtract_loop(x, y, i + 1, 0,
                                Append(res, DigitSub(xb, get_digit(y, i))))
             ELSE subtract_loop(x, y, i + 1, 1,
                                Append(res, inverse_digit(DigitSub(get_digit(y, i), xb))))
    ELSE res

\* What one activation of add or subtract does: it returns a value computed
\* by its digit loop, or makes one nested call and returns that call's value,
\* negated when neg.
Returns(v) == [kind |-> "ret", val |-> v]
Calls(fn, x, y, neg) == [kind |-> "call", fn |-> fn, x |-> x, y |-> y, neg |-> neg]

add_frame(x, y) ==
    IF x.is_negative /\ y.is_negative
    THEN Calls("add", negate(x), negate(y), TRUE)
    ELSE IF x.is_negative /\ ~y.is_negative
    THEN Calls("subtract", y, negate(x), FALSE)
    ELSE IF ~x.is_negative /\ y.is_negative
    THEN Calls("subtract", x, negate(y), FALSE)
    ELSE Returns(create(add_loop(x, y, 0, 0, <<>>), FALSE))

subtract_frame(x, y) ==
    IF is_less_than(x, y)
    THEN Calls("subtract", y, x, TRUE)
    ELSE IF x.is_negative /\ y.is_negative
    THEN Calls("subtract", negate(y), negate(x), TRUE)
    ELSE IF x.is_negative /\ ~y.is_negative
    THEN Calls("add", negate(x), y, TRUE)
    ELSE IF ~x.is_negative /\ y.is_negative
    THEN Calls("add", x, negate(y), FALSE)
    ELSE Returns(create(StripZeros(subtract_loop(x, y, 0, 0, <<>>)), FALSE))

Activation(fn, x, y) == IF fn = "add" THEN add_frame(x, y) ELSE subtract_frame(x, y)

RECURSIVE Invoke(_, _, _)
\* The value a call of fn(x, y) returns: its activation, run to the end.
Invoke(fn, x, y) ==
    LET a == Activation(fn, x, y)
    IN  IF a.kind = "ret" THEN a.val
        ELSE LET r == Invoke(a.fn, a.x, a.y)
             IN  IF a.neg THEN negate(r) ELSE r

add(x, y) == Invoke("add", x, y)
subtract(x, y) == Invoke("subtract", x, y)


-----------------------------------------------------------------------------
\* The base-2^k text codec.  A text is a sequence of one-character strings.

DecimalChars == <<"0", "1", "2", "3", "4", "5", "6", "7", "8", "9">>
LowerChars == <<"a", "b", "c", "d", "e", "f", "g", "h", "i", "j", "k", "l", "m",
                "n", "o", "p", "q", "r", "s", "t", "u", "v", "w", "x", "y", "z">>
UpperChars == <<"A", "B", "C", "D", "E", "F", "G", "H", "I", "J", "K", "L", "M",
                "N", "O", "P", "Q", "R", "S", "T", "U", "V", "W", "X", "Y", "Z">>

InSeq(s, c) == \E i \in 1..Len(s) : s[i] = c
IndexIn(s, c) == CHOOSE i \in 1..Len(s) : s[i] = c

\* std::tolower in the "C" locale
tolower(d) == IF InSeq(UpperChars, d) THEN LowerChars[IndexIn(UpperChars, d)] ELSE d

\* (1 + '9' - '0') + (1 + 'Z' - 'A')
max_base == 36

is_pow2(x) ==
    LET RECURSIVE halve(_)
        halve(v) == IF v > 1 THEN (IF v % 2 # 0 THEN FALSE ELSE halve(v \div 2)) ELSE TRUE
    IN  IF x = 0 THEN FALSE ELSE halve(x)

\* Called with x >= 2 only: the assertions of its callers reject the rest.
log2_pow2(x) ==
    LET RECURSIVE count(_, _)
        count(v, n) == IF v \div 2 # 0 THEN count(v \div 2, n + 1) ELSE n
    IN  count(x, 0)

\* The condition asserted by get_digit_character_value.
is_digit_character(d) == InSeq(DecimalChars, tolower(d)) \/ InSeq(LowerChars, tolower(d))

get_digit_character_value(d) ==
    IF InSeq(DecimalChars, tolower(d))
    THEN IndexIn(DecimalChars, tolower(d)) - 1
    ELSE 10 + IndexIn(LowerChars, tolower(d)) - 1

get_digit_character(value, uppercase) ==
    IF value < 10 THEN DecimalChars[value + 1]
    ELSE IF uppercase THEN UpperChars[value - 10 + 1] ELSE LowerChars[value - 10 + 1]

\* !!(v & (1 << bit)) as 0 or 1, for an int v >= 0
IntBit(v, bit) == (v \div (2 ^ bit)) % 2

\* v | (b << bit), for an int v >= 0 and b in {0, 1}
IntOrBit(v, b, bit) == IF b = 0 \/ IntBit(v, bit) = 1 THEN v ELSE v + 2 ^ bit

\* One iteration of the loop of digits_from_pow2_base, on loop state st;
\* ok turns FALSE when the assertion of get_digit_character_value fails.
digits_loop_body(str, bit_count, counter, st) ==
    LET char_index == counter \div bit_count
        c == str[char_index + 1]
    IN  IF ~is_digit_character(c) THEN [st EXCEPT !.ok = FALSE]
        ELSE LET char_value == get_digit_character_value(c)
                 char_value_bit_index == counter % bit_count
                 is_set == IntBit(char_value, char_value_bit_index)
                 digit_bit_index == counter % 32
                 d == DigitOrBit(st.current_digit, is_set, digit_bit_index)
             IN  IF (counter + 1) % 32 = 0
                 THEN [ok |-> TRUE, current_digit |-> Zero, result |-> Append(st.result, d)]
                 ELSE [ok |-> TRUE, current_digit |-> d, result |-> st.result]

RECURSIVE digits_loop(_, _, _, _, _)
\* Iterations first .. last of that loop, in order, stopping at a failed
\* assertion.  (The range is run as two halves to keep TLC's evaluation
\* shallow; the iterations and their order are the loop's.)
digits_loop(str, bit_count, first, last, st) ==
    IF first > last \/ ~st.ok THEN st
    ELSE IF first = last THEN digits_loop_body(str, bit_count, first, st)
    ELSE LET mid == (first + last) \div 2
             left == digits_loop(str, bit_count, first, mid, st)
         IN  IF left.ok THEN digits_loop(str, bit_count, mid + 1, last, left) ELSE left

\* ok is FALSE, and there is no result, when an assertion failed.
digits_from_pow2_base(str, base) ==
    LET bit_count == log2_pow2(base)
        st == digits_loop(str, bit_count, 0, Len(str) * bit_count - 1,
                          [ok |-> TRUE, current_digit |-> Zero, result |-> <<>>])
    IN  IF ~st.ok THEN [ok |-> FALSE, digits |-> <<>>]
        ELSE [ok |-> TRUE,
              digits |-> StripZeros(IF st.current_digit # Zero
                                    THEN Append(st.result, st.current_digit)
                                    ELSE st.result)]

\* One iteration of the inner loop of string_from_pow2_base.  The two nested
\* loops are numbered as one: iteration n reads bit 31 - n % 32 of digit
\* size - 1 - n / 32.
string_loop_body(digits, bit_count, uppercase, n, st) ==
    LET current_digit == digits[Len(digits) - (n \div 32)]
        is_set == DigitBit(current_digit, 31 - (n % 32))
        bits == IntOrBit(st.current_bits, is_set,
                         bit_count - 1 - (st.counter % bit_count))
        next == (st.counter + 1) % bit_count
    IN  IF next = 0 /\ (st.has_at_least_one_character \/ bits # 0)
        THEN [counter |-> next, current_bits |-> 0,
              has_at_least_one_character |-> TRUE,
              ss |-> Append(st.ss, get_digit_character(bits, uppercase))]
        ELSE [st EXCEPT !.counter = next, !.current_bits = bits]

RECURSIVE string_loop(_, _, _, _, _, _)
\* Iterations first .. last of those loops, in order.  (Run as two halves,
\* the first evaluated before the second is entered: counter < bit_count
\* holds after every iteration.)
string_loop(digits, bit_count, uppercase, first, last, st) ==
    IF first > last THEN st
    ELSE IF first = last THEN string_loop_body(digits, bit_count, uppercase, first, st)
    ELSE LET mid == (first + last) \div 2
             left == string_loop(digits, bit_count, uppercase, first, mid, st)
         IN  IF left.counter < bit_count
             THEN string_loop(digits, bit_count, uppercase, mid + 1, last, left)
             ELSE left

string_from_pow2_base(x, base, uppercase) ==
    LET bit_count == log2_pow2(base)
    IN  string_loop(x.digits, bit_count, uppercase, 0, 32 * Len(x.digits) - 1,
            [counter |-> (Len(x.digits) * 32) % bit_count,
             current_bits |-> 0,
             has_at_least_one_character |-> FALSE,
             ss |-> IF x.is_negative THEN <<"-">> ELSE <<>>]).ss

\* Outcomes of a call: a value, or the check that ended it.  The failing
\* assertions are named as the specification names the errors:
\*   assert(is_pow2(base))                    "UnsupportedBase"
\*   assert(base > 1 and base <= max_base)    "InvalidBaseRange"
\*   the assert of get_digit_character_value  "InvalidCharacter"
\*   throw std::exception()                   "NotImplemented"
\* value is the integer returned, str the text returned.
NoInteger == create(<<>>, FALSE)
Ok(v) == [kind |-> "ok", value |-> v, str |-> <<>>]
OkString(s) == [kind |-> "ok", value |-> NoInteger, str |-> s]
Fails(kind) == [kind |-> kind, value |-> NoInteger, str |-> <<>>]

\* create with the base > 1 range check made before the power-of-two check.
create_from_string_range_first(str, base) ==
    LET signed == str # <<>> /\ (str[1] = "-" \/ str[1] = "+")
        is_negative == signed /\ str[1] = "-"
        body == IF signed THEN SubSeq(str, 2, Len(str)) ELSE str
    IN  IF ~(base > 1 /\ base <= max_base) THEN Fails("InvalidBaseRange")
        ELSE IF ~is_pow2(base) THEN Fails("UnsupportedBase")
        ELSE LET parsed == digits_from_pow2_base(body, base)
             IN  IF parsed.ok THEN Ok(create(parsed.digits, is_negative))
                 ELSE Fails("InvalidCharacter")

\* integer::create(std::string_view, int)
create_from_string(str, base) ==
    LET signed == str # <<>> /\ (str[1] = "-" \/ str[1] = "+")
        is_negative == signed /\ str[1] = "-"
        body == IF signed THEN SubSeq(str, 2, Len(str)) ELSE str
    IN  IF ~is_pow2(base) THEN Fails("UnsupportedBase")
        ELSE IF ~(base > 1 /\ base <= max_base) THEN Fails("InvalidBaseRange")
        ELSE IF is_pow2(base)
        THEN LET parsed == digits_from_pow2_base(body, base)
             IN  IF parsed.ok THEN Ok(create(parsed.digits, is_negative))
                 ELSE Fails("InvalidCharacter")
        ELSE Fails("NotImplemented")

to_string(x, base, uppercase) ==
    IF ~is_pow2(base) THEN Fails("UnsupportedBase")
    ELSE IF ~(base > 1 /\ base <= max_base) THEN Fails("InvalidBaseRange")
    ELSE IF is_pow2(base) THEN OkString(string_from_pow2_base(x, base, uppercase))
    ELSE Fails("NotImplemented")

-----------------------------------------------------------------------------
\* The operands the calls are made with

\* Digits of the operands of add and subtract.
DigitValues == {Zero, One, max_digit}
\* Digits of the operands of to_string: those, and 0x80000000, 0x12345678.
StringDigitValues == DigitValues \cup {HighBit, Digit(4660, 22136)}

RECURSIVE SeqsUpTo(_, _)
\* All sequences over S of length at most n.
SeqsUpTo(S, n) ==
    IF n = 0 THEN {<<>>}
    ELSE LET shorter == SeqsUpTo(S, n - 1)
         IN  shorter \cup {Append(s, e) : s \in {t \in shorter : Len(t) = n - 1}, e \in S}

\* Normalized: no most-significant zero digit; zero is the empty sequence.
Normalized(digits) == digits = <<>> \/ digits[Len(digits)] # Zero

Magnitudes == {s \in SeqsUpTo(DigitValues, MaxLen) : Normalized(s)}
IntegerValues == {create(m, n) : m \in Magnitudes, n \in BOOLEAN}

StringMagnitudes == {s \in SeqsUpTo(StringDigitValues, MaxLen) : Normalized(s)}
StringIntegerValues == {create(m, n) : m \in StringMagnitudes, n \in BOOLEAN}

\* Characters of the texts parsed: digits valid in some bases and not in
\* others, both cases of a letter, the signs.
TextChars == {"0", "1", "7", "f", "G", "Z", "-", "+"}
Texts == SeqsUpTo(TextChars, MaxTextLen)

SupportedBases == {2, 4, 8, 16, 32}
Bases == SupportedBases \cup {-4, -1, 0, 1, 3, 10, 36, 37, 64}

-----------------------------------------------------------------------------
\* The calls, as a state machine

NoCall == [op |-> "none", x |-> NoInteger, y |-> NoInteger,
           str |-> <<>>, base |-> 0, uppercase |-> TRUE]
Frame(fn, x, y) == [fn |-> fn, x |-> x, y |-> y, at |-> "entry", neg |-> FALSE]
NoResult == Fails("none")

Init ==
    /\ pc = "idle"
    /\ call = NoCall
    /\ stack = <<>>
    /\ ret = <<>>
    /\ result = NoResult

Top == stack[Len(stack)]
Pop == SubSeq(stack, 1, Len(stack) - 1)

\* The caller invokes add(x, y).
CallAdd ==
    /\ pc = "idle"
    /\ \E x \in IntegerValues, y \in IntegerValues :
          /\ call' = [NoCall EXCEPT !.op = "add", !.x = x, !.y = y]
          /\ stack' = <<Frame("add", x, y)>>
    /\ pc' = "running"
    /\ UNCHANGED <<ret, result>>

\* The caller invokes subtract(x, y).
CallSubtract ==
    /\ pc = "idle"
    /\ \E x \in IntegerValues, y \in IntegerValues :
          /\ call' = [NoCall EXCEPT !.op = "subtract", !.x = x, !.y = y]
          /\ stack' = <<Frame("subtract", x, y)>>
    /\ pc' = "running"
    /\ UNCHANGED <<ret, result>>

\* Hand value v to whoever waits below the popped frame: the caller when
\* the stack is empty.
Deliver(v) ==
    /\ stack' = Pop
    /\ IF Len(stack) = 1
       THEN /\ result' = Ok(v)
            /\ ret' = <<>>
            /\ pc' = "done"
       ELSE /\ ret' = <<v>>
            /\ UNCHANGED <<result, pc>>
    /\ UNCHANGED call

\* The guards of the three steps of a running call; what each step then
\* does is an assignment, so a step is enabled exactly when its guard holds.
CanRecurse ==
    /\ pc = "running" /\ stack # <<>> /\ Top.at = "entry"
    /\ Activation(Top.fn, Top.x, Top.y).kind = "call"
CanDigitLoop ==
    /\ pc = "running" /\ stack # <<>> /\ Top.at = "entry"
    /\ Activation(Top.fn, Top.x, Top.y).kind = "ret"
CanReturn ==
    /\ pc = "running" /\ stack # <<>> /\ Top.at = "wait" /\ ret # <<>>

\* The running activation takes one of the sign / ordering cases and makes
\* its nested call.
Recurse ==
    /\ CanRecurse
    /\ LET a == Activation(Top.fn, Top.x, Top.y)
       IN  stack' = Append([stack EXCEPT ![Len(stack)].at = "wait",
                                         ![Len(stack)].neg = a.neg],
                           Frame(a.fn, a.x, a.y))
    /\ UNCHANGED <<pc, call, ret, result>>

\* The running activation falls through to its digit loop and returns.
DigitLoop ==
    /\ CanDigitLoop
    /\ Deliver(Activation(Top.fn, Top.x, Top.y).val)

\* A nested call has returned: the waiting activation returns its value,
\* negated where the source wraps the call in negate().
Return ==
    /\ CanReturn
    /\ Deliver(IF Top.neg THEN negate(ret[1]) ELSE ret[1])

\* The caller invokes create(str, base).
CallCreate ==
    /\ pc = "idle"
    /\ \E str \in Texts, base \in Bases :
          /\ call' = [NoCall EXCEPT !.op = "create", !.str = str, !.base = base]
          /\ result' = create_from_string(str, base)
    /\ pc' = "done"
    /\ UNCHANGED <<stack, ret>>

\* The caller invokes to_string(x, base, uppercase).
CallToString ==
    /\ pc = "idle"
    /\ \E x \in StringIntegerValues, base \in Bases, uppercase \in BOOLEAN :
          /\ call' = [NoCall EXCEPT !.op = "to_string", !.x = x, !.base = base,
                                    !.uppercase = uppercase]
          /\ result' = to_string(x, base, uppercase)
    /\ pc' = "done"
    /\ UNCHANGED <<stack, ret>>

Next ==
    \/ CallAdd \/ CallSubtract \/ Recurse \/ DigitLoop \/ Return
    \/ CallCreate \/ CallToString

Spec == Init /\ [][Next]_vars

-----------------------------------------------------------------------------
\* The mathematical integers the claims speak of.  A natural number is its
\* little-endian sequence of base-2^16 limbs with no most-significant zero
\* limb; an integer is a sign and a natural number, zero having no sign.

RECURSIVE NatStrip(_)
NatStrip(s) == IF s # <<>> /\ s[Len(s)] = 0 THEN NatStrip(SubSeq(s, 1, Len(s) - 1)) ELSE s

NatLimb(a, i) == IF i <= Len(a) THEN a[i] ELSE 0

RECURSIVE NatAddFrom(_, _, _, _)
NatAddFrom(a, b, i, carry) ==
    IF i > Max(Len(a), Len(b)) THEN (IF carry = 0 THEN <<>> ELSE <<carry>>)
    ELSE LET t == NatLimb(a, i) + NatLimb(b, i) + carry
         IN  <<t % Half>> \o NatAddFrom(a, b, i + 1, t \div Half)

NatSum(a, b) == NatAddFrom(a, b, 1, 0)

NatLess(a, b) ==
    \/ Len(a) < Len(b)
    \/ /\ Len(a) = Len(b)
       /\ \E i \in 1..Len(a) : a[i] < b[i] /\ \A j \in (i + 1)..Len(a) : a[j] = b[j]

RECURSIVE NatSubFrom(_, _, _, _)
NatSubFrom(a, b, i, borrow) ==
    IF i > Len(a) THEN <<>>
    ELSE LET t == NatLimb(a, i) - NatLimb(b, i) - borrow
         IN  <<(t + Half) % Half>> \o NatSubFrom(a, b, i + 1, IF t < 0 THEN 1 ELSE 0)

\* a - b, for a >= b
NatDifference(a, b) == NatStrip(NatSubFrom(a, b, 1, 0))

IntOf(neg, mag) == [neg |-> neg /\ mag # <<>>, mag |-> mag]
IntNegation(u) == IntOf(~u.neg, u.mag)
IntSum(u, v) ==
    IF u.neg = v.neg THEN IntOf(u.neg, NatSum(u.mag, v.mag))
    ELSE IF NatLess(u.mag, v.mag) THEN IntOf(v.neg, NatDifference(v.mag, u.mag))
    ELSE IntOf(u.neg, NatDifference(u.mag, v.mag))

\* value(x): the sign applied to the little-endian base-2^32 magnitude.
Value(x) ==
    IntOf(x.is_negative,
          NatStrip([i \in 1..(2 * Len(x.digits)) |->
                       IF i % 2 = 1 THEN x.digits[(i + 1) \div 2].lo
                                    ELSE x.digits[i \div 2].hi]))

\* Bit p (p >= 0) of the magnitude of a digit sequence.
MagnitudeBit(digits, p) ==
    IF p \div 32 < Len(digits) THEN DigitBit(digits[p \div 32 + 1], p % 32) ELSE 0

\* The value of character c as a digit of some base, -1 when it is none.
CharValue(c) ==
    IF InSeq(DecimalChars, c) THEN IndexIn(DecimalChars, c) - 1
    ELSE IF InSeq(LowerChars, c) THEN 10 + IndexIn(LowerChars, c) - 1
    ELSE IF InSeq(UpperChars, c) THEN 10 + IndexIn(UpperChars, c) - 1
    ELSE 0 - 1

\* Bit p of the number that text t writes in base 2^k, most significant
\* character first.
NumeralBit(t, k, p) ==
    IF p \div k < Len(t) THEN IntBit(CharValue(t[Len(t) - (p \div k)]), p % k) ELSE 0

\* t is the base-2^k numeral of the magnitude of digits: digits of the base
\* only, no leading zero character, and the same number bit for bit.
IsNumeralOf(t, k, digits) ==
    /\ \A i \in 1..Len(t) : CharValue(t[i]) >= 0 /\ CharValue(t[i]) < 2 ^ k
    /\ t = <<>> \/ t[1] # "0"
    /\ \A p \in 0..(Max(32 * Len(digits), k * Len(t)) - 1) :
          NumeralBit(t, k, p) = MagnitudeBit(digits, p)

Log2(b) == CHOOSE k \in 0..30 : 2 ^ k = b
PowerOfTwo(b) == \E k \in 0..30 : 2 ^ k = b

\* The text without its optional leading sign character.
Unsigned(str) ==
    IF str # <<>> /\ (str[1] = "-" \/ str[1] = "+") THEN SubSeq(str, 2, Len(str)) ELSE str

\* Every character after the sign is a digit of the base.
ValidText(str, base) ==
    \A i \in 1..Len(Unsigned(str)) :
        CharValue(Unsigned(str)[i]) >= 0 /\ CharValue(Unsigned(str)[i]) < base

Done(op) == pc = "done" /\ call.op = op

-----------------------------------------------------------------------------
\* The claims

\* C1: add is exact: add(x, y) denotes value(x) + value(y), every carry
\* propagated or appended as a final digit 1.
C1_AddExact ==
    Done("add") => Value(result.value) = IntSum(Value(call.x), Value(call.y))

\* C2: subtract is exact: subtract(x, y) denotes value(x) - value(y), for
\* every sign combination and every borrow pattern.
C2_SubtractExact ==
    Done("subtract") =>
        Value(result.value) = IntSum(Value(call.x), IntNegation(Value(call.y)))

\* C3: round trip: for every supported base b and every Integer x,
\* fromText(toText(x, b), b) has the sign flag and the digit sequence of x.
C3_RoundTrip ==
    (Done("to_string") /\ call.base \in SupportedBases) =>
        /\ result.kind = "ok"
        /\ create_from_string(result.str, call.base) = Ok(call.x)

\* C4: subtract(x, y) and add(x, negate(y)) return Integers with the same
\* sign flag and the same digit sequence.
C4_SubtractIsAddNegated ==
    Done("subtract") => result.value = add(call.x, negate(call.y))

\* C5: commutativity: add(x, y) and add(y, x) return Integers with the same
\* sign flag and the same digit sequence.
C5_AddCommutes ==
    Done("add") => result.value = add(call.y, call.x)

\* C6: normalization: for normalized operands and valid texts, no Integer
\* returned by add, subtract or fromText has a nonempty digit sequence whose
\* most-significant digit is zero.
C6_ResultNormalized ==
    (/\ pc = "done" /\ result.kind = "ok"
     /\ \/ call.op \in {"add", "subtract"}
        \/ call.op = "create" /\ ValidText(call.str, call.base))
    => Normalized(result.value.digits)

\* C7: invalid characters are rejected: for a supported base b, a text with
\* a character whose digit value is >= b, or that is no digit or letter,
\* makes fromText fail with InvalidCharacter.
C7_InvalidCharacterRejected ==
    (Done("create") /\ call.base \in SupportedBases /\ ~ValidText(call.str, call.base))
    => result.kind = "InvalidCharacter"

\* C8 as stated: fromText and toText return a result only for the bases 2,
\* 4, 8, 16, 32; a base outside [2, 36] fails with InvalidBaseRange, one
\* inside that is no power of two with UnsupportedBase.
C8_BaseValidationAsStated ==
    (pc = "done" /\ call.op \in {"create", "to_string"}) =>
        /\ result.kind = "ok" => call.base \in SupportedBases
        /\ (call.base < 2 \/ call.base > 36) => result.kind = "InvalidBaseRange"
        /\ (call.base \in 2..36 /\ call.base \notin SupportedBases) =>
               result.kind = "UnsupportedBase"

\* C8 amended: fromText and toText return a result only for the bases 2, 4,
\* 8, 16, 32; every other base fails without a result: 0 and every base from
\* 3 up that is no power of two (37 too) at the power-of-two check
\* (UnsupportedBase), and 1, every negative base and every power of two
\* above 36 at the range check (InvalidBaseRange).
C8_BaseValidation ==
    (pc = "done" /\ call.op \in {"create", "to_string"}) =>
        /\ result.kind = "ok" => call.base \in SupportedBases
        /\ call.base \notin SupportedBases =>
              result.kind = IF call.base = 0 \/ (call.base > 2 /\ ~PowerOfTwo(call.base))
                            THEN "UnsupportedBase" ELSE "InvalidBaseRange"

\* C8 witness: fromText("ZZ", 37) has failed, at the power-of-two check.
C8_Witness ==
    /\ Done("create") /\ call.str = <<"Z", "Z">> /\ call.base = 37
    /\ result.kind = "UnsupportedBase"

\* C9: toText is the correct numeral: for a supported base 2^k and a
\* non-negative x, toText(x, 2^k) is the base-2^k representation of value(x),
\* most significant character first, with no leading zero character.
C9_ToTextIsNumeral ==
    (Done("to_string") /\ call.base \in SupportedBases /\ ~call.x.is_negative) =>
        /\ result.kind = "ok"
        /\ IsNumeralOf(result.str, Log2(call.base), call.x.digits)

\* C10 as stated: add and subtract reach their digit loop after at most one
\* nested call beyond the initial call: never more than two activations.
C10_OneNestedCallAsStated == Len(stack) <= 2

\* How far a running call is from its end: while activations are entered
\* (nothing returned yet) the stack can still grow to four frames and must
\* then unwind; once a value is on its way back every step pops a frame.
Rank ==
    IF pc # "running" THEN 0
    ELSE IF ret = <<>> THEN 9 - Len(stack)
    ELSE Len(stack)

\* C10 amended: every call of add(x, y) or subtract(x, y) terminates, and it
\* reaches a digit-wise carry or borrow loop after at most three nested
\* recursive calls beyond the initial call.  (Termination: a running call
\* always has a step to take, and every step lowers Rank, which is never
\* negative.)
C10_BoundedRecursion ==
    /\ [](Len(stack) <= 4)
    /\ [](pc = "running" => Rank > 0 /\ (CanRecurse \/ CanDigitLoop \/ CanReturn))
    /\ [][pc = "running" => Rank' < Rank /\ Rank' >= 0]_vars

\* C10 witness: a digit loop is about to run in the third nested call.
C10_Witness ==
    /\ Len(stack) = 4 /\ CanDigitLoop

=============================================================================
